---- MODULE Spec2Model ----
(***************************************************************************)
(* Model of the instinct_trading program                                   *)
(* (programs/solana-program/src/lib.rs): the platform registry, the run    *)
(* ledgers, the participation records and the run vaults, with one action  *)
(* per instruction.  Every instruction is one atomic step: the runtime     *)
(* runs a transaction's instruction to completion under write locks on the *)
(* accounts it names, and a failed instruction leaves no account changed.  *)
(* Account validation (the #[derive(Accounts)] constraints) runs before    *)
(* the handler body, in the order the accounts are declared.               *)
(***************************************************************************)
EXTENDS Integers, FiniteSets, Sequences, TLC

\* ------------------------------------------------------------------ bounds
MaxRuns == 1          \* run ids are 1..MaxRuns
MaxAmount == 2        \* deposit amounts and deposit bounds range over 0..MaxAmount
MaxParticipants == 2  \* max_participants ranges over 0..MaxParticipants
MaxCredit == 1        \* tokens third parties may add to a vault beyond the deposits
WordBits == 15        \* u64 is modelled WordBits wide, u128 twice as wide

\* ------------------------------------------------------- program constants
BpsPerVote == 100     \* 1% per correct vote
BpsDenominator == 10000
MaxU8 == 255          \* correct_votes and total_votes are u8
VotingRounds == 12    \* "max 12% bonus if all 12 votes correct"

\* ------------------------------------------------------------ integer types
\* The largest bonus rate, MaxU8 * BpsPerVote, fits the modelled u64, and a
\* product of two modelled u64 values fits the modelled u128, as in the
\* program: the u128 intermediates never overflow.
U64Modulus == 2^WordBits
U64Max == U64Modulus - 1

\* the narrowing cast `as u64`, and the result of a wrapping u64 operation
U64(x) == x % U64Modulus

\* ------------------------------------------------------------- input sets
Admin == "admin"
Users == {"alice", "bob"}              \* the keys that sign deposit and withdraw
Keys == Users \cup {Admin}
Signers == {Admin, "alice"}            \* the keys that sign the other instructions
RunIds == 1..MaxRuns
Amounts == 0..MaxAmount
MinDeposits == {0, 1}
ParticipantLimits == 0..MaxParticipants
CorrectVotes == {0, MaxU8}
TotalVotes == {VotingRounds}
FeeBps == 1500
VaultCap == MaxParticipants * MaxAmount + MaxCredit

\* ------------------------------------------------------------------- state
VARIABLES
    platform,   \* the Platform account
    runs,       \* run id -> Run account (exists = FALSE: not created)
    parts,      \* run id -> key -> UserParticipation account
    vault,      \* run id -> the run's vault token account
    last,       \* the last instruction: its name, its run and its result
                \* (and, for create_run, its signer)
    race        \* SpecRace only: racing depositor -> result of its attempt

vars == <<platform, runs, parts, vault, last, race>>
accounts == <<platform, runs, parts, vault>>

NoRun ==
    [exists |-> FALSE, authority |-> Admin, status |-> "Waiting",
     total_deposited |-> 0, final_balance |-> 0, participant_count |-> 0,
     min_deposit |-> 0, max_deposit |-> 0, max_participants |-> 0]

NoParticipation ==
    [exists |-> FALSE, deposit_amount |-> 0, final_share |-> 0,
     withdrawn |-> FALSE, correct_votes |-> 0, total_votes |-> 0]

NoVault == [exists |-> FALSE, amount |-> 0]

\* The signer is kept for create_run, the one state-changing instruction
\* whose accounts bind the signer to no stored key.
Called(op, r, k, res) ==
    [op |-> op, run |-> r, res |-> res,
     signer |-> IF op = "create_run" THEN k ELSE "-"]

\* initialize_platform(FeeBps) signed by Admin has run: the platform exists.
Init ==
    /\ platform = [authority |-> Admin, platform_fee_bps |-> FeeBps,
                   total_runs |-> 0, is_paused |-> FALSE]
    /\ runs = [r \in RunIds |-> NoRun]
    /\ parts = [r \in RunIds |-> [k \in Keys |-> NoParticipation]]
    /\ vault = [r \in RunIds |-> NoVault]
    /\ last = Called("initialize_platform", 0, Admin, "Ok")
    /\ race = << >>

\* ------------------------------------------------------ initialize_platform
\* The platform PDA is created by `init`: a second call finds it in use.
InitializePlatformOutcome(fee) == "AccountAlreadyInUse"

InitializePlatform(k, fee) ==
    /\ last' = Called("initialize_platform", 0, k, InitializePlatformOutcome(fee))
    /\ UNCHANGED accounts

\* --------------------------------------------------------------- create_run
CreateRunOutcome(k, r, mn, mx, mp) ==
    IF runs[r].exists THEN "AccountAlreadyInUse"
    ELSE IF platform.is_paused THEN "PlatformPaused"
    ELSE IF ~(mn > 0) THEN "InvalidDepositAmount"
    ELSE IF ~(mx >= mn) THEN "InvalidDepositAmount"
    ELSE IF ~(mp > 0) THEN "InvalidParticipantLimit"
    ELSE "Ok"

NewRun(mn, mx, mp) ==
    [exists |-> TRUE, authority |-> platform.authority, status |-> "Waiting",
     total_deposited |-> 0, final_balance |-> 0, participant_count |-> 0,
     min_deposit |-> mn, max_deposit |-> mx, max_participants |-> mp]

CreateRun(k, r, mn, mx, mp) ==
    LET res == CreateRunOutcome(k, r, mn, mx, mp) IN
    /\ last' = Called("create_run", r, k, res)
    /\ IF res = "Ok"
       THEN /\ runs' = [runs EXCEPT ![r] = NewRun(mn, mx, mp)]
            /\ platform' = [platform EXCEPT !.total_runs = @ + 1]
            /\ UNCHANGED <<parts, vault>>
       ELSE UNCHANGED accounts

\* --------------------------------------------------------- create_run_vault
CreateRunVaultOutcome(k, r) ==
    IF ~runs[r].exists THEN "AccountNotInitialized"
    ELSE IF vault[r].exists THEN "AccountAlreadyInUse"
    ELSE "Ok"

CreateRunVault(k, r) ==
    LET res == CreateRunVaultOutcome(k, r) IN
    /\ last' = Called("create_run_vault", r, k, res)
    /\ IF res = "Ok"
       THEN /\ vault' = [vault EXCEPT ![r] = [exists |-> TRUE, amount |-> 0]]
            /\ UNCHANGED <<platform, runs, parts>>
       ELSE UNCHANGED accounts

\* ------------------------------------------------------------------ deposit
\* mutant: the capacity check is missing
DepositOutcomeNoCapacity(k, r, amt, funded) ==
    IF ~runs[r].exists THEN "AccountNotInitialized"
    ELSE IF parts[r][k].exists THEN "AccountAlreadyInUse"
    ELSE IF ~vault[r].exists THEN "AccountNotInitialized"
    ELSE IF platform.is_paused THEN "PlatformPaused"
    ELSE IF ~(runs[r].status = "Waiting") THEN "RunNotInWaitingPhase"
    ELSE IF ~(amt >= runs[r].min_deposit) THEN "DepositTooLow"
    ELSE IF ~(amt <= runs[r].max_deposit) THEN "DepositTooHigh"
    ELSE IF ~funded THEN "TokenInsufficientFunds"
    ELSE "Ok"

\* mutant: the capacity check is off by one (<= for <)
DepositOutcomeOffByOne(k, r, amt, funded) ==
    IF ~runs[r].exists THEN "AccountNotInitialized"
    ELSE IF parts[r][k].exists THEN "AccountAlreadyInUse"
    ELSE IF ~vault[r].exists THEN "AccountNotInitialized"
    ELSE IF platform.is_paused THEN "PlatformPaused"
    ELSE IF ~(runs[r].status = "Waiting") THEN "RunNotInWaitingPhase"
    ELSE IF ~(amt >= runs[r].min_deposit) THEN "DepositTooLow"
    ELSE IF ~(amt <= runs[r].max_deposit) THEN "DepositTooHigh"
    ELSE IF ~(runs[r].participant_count <= runs[r].max_participants) THEN "RunFull"
    ELSE IF ~funded THEN "TokenInsufficientFunds"
    ELSE "Ok"

\* mutant: the amount is checked before the run's status
DepositOutcomeBoundsFirst(k, r, amt, funded) ==
    IF ~runs[r].exists THEN "AccountNotInitialized"
    ELSE IF parts[r][k].exists THEN "AccountAlreadyInUse"
    ELSE IF ~vault[r].exists THEN "AccountNotInitialized"
    ELSE IF platform.is_paused THEN "PlatformPaused"
    ELSE IF ~(amt >= runs[r].min_deposit) THEN "DepositTooLow"
    ELSE IF ~(amt <= runs[r].max_deposit) THEN "DepositTooHigh"
    ELSE IF ~(runs[r].status = "Waiting") THEN "RunNotInWaitingPhase"
    ELSE IF ~(runs[r].participant_count < runs[r].max_participants) THEN "RunFull"
    ELSE IF ~funded THEN "TokenInsufficientFunds"
    ELSE "Ok"

\* mutant: the participation record is opened with init_if_needed
DepositOutcomeInitIfNeeded(k, r, amt, funded) ==
    IF ~runs[r].exists THEN "AccountNotInitialized"
    ELSE IF ~vault[r].exists THEN "AccountNotInitialized"
    ELSE IF platform.is_paused THEN "PlatformPaused"
    ELSE IF ~(runs[r].status = "Waiting") THEN "RunNotInWaitingPhase"
    ELSE IF ~(amt >= runs[r].min_deposit) THEN "DepositTooLow"
    ELSE IF ~(amt <= runs[r].max_deposit) THEN "DepositTooHigh"
    ELSE IF ~(runs[r].participant_count < runs[r].max_participants) THEN "RunFull"
    ELSE IF ~funded THEN "TokenInsufficientFunds"
    ELSE "Ok"

\* funded: the signer's token account holds at least amt (token::transfer).
DepositOutcome(k, r, amt, funded) ==
    IF ~runs[r].exists THEN "AccountNotInitialized"
    ELSE IF parts[r][k].exists THEN "AccountAlreadyInUse"
    ELSE IF ~vault[r].exists THEN "AccountNotInitialized"
    ELSE IF platform.is_paused THEN "PlatformPaused"
    ELSE IF ~(runs[r].status = "Waiting") THEN "RunNotInWaitingPhase"
    ELSE IF ~(amt >= runs[r].min_deposit) THEN "DepositTooLow"
    ELSE IF ~(amt <= runs[r].max_deposit) THEN "DepositTooHigh"
    ELSE IF ~(runs[r].participant_count < runs[r].max_participants) THEN "RunFull"
    ELSE IF ~funded THEN "TokenInsufficientFunds"
    ELSE "Ok"

NewParticipation(amt) ==
    [exists |-> TRUE, deposit_amount |-> amt, final_share |-> 0,
     withdrawn |-> FALSE, correct_votes |-> 0, total_votes |-> 0]

\* mutant: the running total is not updated
DepositRunForgetsTotal(run, amt) ==
    [run EXCEPT !.participant_count = @ + 1]

\* run.total_deposited += amount, in a build without overflow checks
DepositRun(run, amt) ==
    [run EXCEPT !.total_deposited = U64(@ + amt), !.participant_count = @ + 1]

\* run.total_deposited += amount exceeds u64: a build with overflow checks
\* panics, after the transfer and the record's creation
DepositPanics(k, r, amt, funded) ==
    /\ DepositOutcome(k, r, amt, funded) = "Ok"
    /\ runs[r].total_deposited + amt > U64Max

\* mutant: the tokens of a deposit turned away with RunFull stay in the vault
DepositKeepsRejectedTokens(k, r, amt, funded) ==
    LET res == DepositOutcome(k, r, amt, funded) IN
    /\ last' = Called("deposit", r, k, res)
    /\ IF res = "Ok"
       THEN /\ vault' = [vault EXCEPT ![r].amount = @ + amt]
            /\ parts' = [parts EXCEPT ![r][k] = NewParticipation(amt)]
            /\ runs' = [runs EXCEPT ![r] = DepositRun(@, amt)]
            /\ UNCHANGED platform
       ELSE IF res = "RunFull"
       THEN /\ vault' = [vault EXCEPT ![r].amount = @ + amt]
            /\ UNCHANGED <<platform, runs, parts>>
       ELSE UNCHANGED accounts

Deposit(k, r, amt, funded) ==
    \E overflow_checks \in BOOLEAN :
    LET res == IF overflow_checks /\ DepositPanics(k, r, amt, funded)
               THEN "ProgramFailedToComplete"
               ELSE DepositOutcome(k, r, amt, funded) IN
    /\ last' = Called("deposit", r, k, res)
    /\ IF res = "Ok"
       THEN /\ vault' = [vault EXCEPT ![r].amount = @ + amt]
            /\ parts' = [parts EXCEPT ![r][k] = NewParticipation(amt)]
            /\ runs' = [runs EXCEPT ![r] = DepositRun(@, amt)]
            /\ UNCHANGED platform
       ELSE UNCHANGED accounts

\* ---------------------------------------------------------------- start_run
\* mutant: the status check is missing
StartRunOutcomeAnyStatus(k, r) ==
    IF ~runs[r].exists THEN "AccountNotInitialized"
    ELSE IF ~(runs[r].authority = k) THEN "ConstraintHasOne"
    ELSE IF ~(runs[r].participant_count > 0) THEN "NoParticipants"
    ELSE "Ok"

\* mutant: the participant check is missing
StartRunOutcomeNoParticipantCheck(k, r) ==
    IF ~runs[r].exists THEN "AccountNotInitialized"
    ELSE IF ~(runs[r].authority = k) THEN "ConstraintHasOne"
    ELSE IF ~(runs[r].status = "Waiting") THEN "InvalidRunStatus"
    ELSE "Ok"

StartRunOutcome(k, r) ==
    IF ~runs[r].exists THEN "AccountNotInitialized"
    ELSE IF ~(runs[r].authority = k) THEN "ConstraintHasOne"
    ELSE IF ~(runs[r].status = "Waiting") THEN "InvalidRunStatus"
    ELSE IF ~(runs[r].participant_count > 0) THEN "NoParticipants"
    ELSE "Ok"

StartRun(k, r) ==
    LET res == StartRunOutcome(k, r) IN
    /\ last' = Called("start_run", r, k, res)
    /\ IF res = "Ok"
       THEN /\ runs' = [runs EXCEPT ![r].status = "Active"]
            /\ UNCHANGED <<platform, parts, vault>>
       ELSE UNCHANGED accounts

\* --------------------------------------------------------------- settle_run
\* mutant: the vault balance is not compared with final_balance
SettleRunOutcomeNoCrossCheck(k, r, final_balance, shares) ==
    IF ~runs[r].exists THEN "AccountNotInitialized"
    ELSE IF ~vault[r].exists THEN "AccountNotInitialized"
    ELSE IF ~(runs[r].authority = k) THEN "ConstraintHasOne"
    ELSE IF ~(runs[r].status = "Active") THEN "InvalidRunStatus"
    ELSE IF ~(Len(shares) = runs[r].participant_count) THEN "InvalidSharesCount"
    ELSE "Ok"

\* mutant: the share amounts must not exceed final_balance
SettleRunOutcomeReadsShares(k, r, final_balance, shares) ==
    IF ~runs[r].exists THEN "AccountNotInitialized"
    ELSE IF ~vault[r].exists THEN "AccountNotInitialized"
    ELSE IF ~(runs[r].authority = k) THEN "ConstraintHasOne"
    ELSE IF ~(runs[r].status = "Active") THEN "InvalidRunStatus"
    ELSE IF ~(Len(shares) = runs[r].participant_count) THEN "InvalidSharesCount"
    ELSE IF ~(vault[r].amount = final_balance) THEN "VaultBalanceMismatch"
    ELSE IF \E i \in DOMAIN shares : shares[i].share_amount > final_balance
        THEN "VaultBalanceMismatch"
    ELSE "Ok"

\* shares: the participant_shares vector, a sequence of ParticipantShare.
SettleRunOutcome(k, r, final_balance, shares) ==
    IF ~runs[r].exists THEN "AccountNotInitialized"
    ELSE IF ~vault[r].exists THEN "AccountNotInitialized"
    ELSE IF ~(runs[r].authority = k) THEN "ConstraintHasOne"
    ELSE IF ~(runs[r].status = "Active") THEN "InvalidRunStatus"
    ELSE IF ~(Len(shares) = runs[r].participant_count) THEN "InvalidSharesCount"
    ELSE IF ~(vault[r].amount = final_balance) THEN "VaultBalanceMismatch"
    ELSE "Ok"

SettledRun(run, final_balance) ==
    [run EXCEPT !.status = "Settled", !.final_balance = final_balance]

SettleRun(k, r, final_balance, shares) ==
    LET res == SettleRunOutcome(k, r, final_balance, shares) IN
    /\ last' = Called("settle_run", r, k, res)
    /\ IF res = "Ok"
       THEN /\ runs' = [runs EXCEPT ![r] = SettledRun(@, final_balance)]
            /\ UNCHANGED <<platform, parts, vault>>
       ELSE UNCHANGED accounts

\* ----------------------------------------------------------------- withdraw
\* mutant: the division is done before the multiplication
BaseShareDivideFirst(deposit_amount, final_balance, total_deposited) ==
    (deposit_amount \div total_deposited) * final_balance

\* (deposit_amount as u128 * final_balance as u128 / total_deposited as u128) as u64
BaseShare(deposit_amount, final_balance, total_deposited) ==
    U64((deposit_amount * final_balance) \div total_deposited)

CorrectVoteBonusBps(correct_votes) == correct_votes * BpsPerVote

\* (user_share as u128 * correct_vote_bonus_bps as u128 / 10000) as u64
Bonus(base, correct_votes) ==
    U64((base * CorrectVoteBonusBps(correct_votes)) \div BpsDenominator)

\* user_share += bonus, in a build without overflow checks
UserShare(deposit_amount, final_balance, total_deposited, correct_votes) ==
    LET base == BaseShare(deposit_amount, final_balance, total_deposited)
    IN  U64(base + Bonus(base, correct_votes))

\* user_share += bonus exceeds u64: a build with overflow checks panics
UserShareOverflows(deposit_amount, final_balance, total_deposited, correct_votes) ==
    LET base == BaseShare(deposit_amount, final_balance, total_deposited)
    IN  base + Bonus(base, correct_votes) > U64Max

ShareOf(r, k) ==
    UserShare(parts[r][k].deposit_amount, runs[r].final_balance,
              runs[r].total_deposited, parts[r][k].correct_votes)

\* mutant: withdraw is refused while the platform is paused
WithdrawOutcomePauseGated(k, r) ==
    IF ~runs[r].exists THEN "AccountNotInitialized"
    ELSE IF ~parts[r][k].exists THEN "AccountNotInitialized"
    ELSE IF ~vault[r].exists THEN "AccountNotInitialized"
    ELSE IF platform.is_paused THEN "PlatformPaused"
    ELSE IF ~(runs[r].status = "Settled") THEN "RunNotSettled"
    ELSE IF parts[r][k].withdrawn THEN "AlreadyWithdrawn"
    ELSE IF ~(ShareOf(r, k) <= vault[r].amount) THEN "InsufficientVaultFunds"
    ELSE "Ok"

WithdrawOutcome(k, r) ==
    IF ~runs[r].exists THEN "AccountNotInitialized"
    ELSE IF ~parts[r][k].exists THEN "AccountNotInitialized"
    ELSE IF ~vault[r].exists THEN "AccountNotInitialized"
    ELSE IF ~(runs[r].status = "Settled") THEN "RunNotSettled"
    ELSE IF parts[r][k].withdrawn THEN "AlreadyWithdrawn"
    ELSE IF ~(ShareOf(r, k) <= vault[r].amount) THEN "InsufficientVaultFunds"
    ELSE "Ok"

\* mutant: the withdrawn flag is not set
WithdrawnParticipationNoFlag(p, user_share) ==
    [p EXCEPT !.final_share = user_share]

WithdrawnParticipation(p, user_share) ==
    [p EXCEPT !.final_share = user_share, !.withdrawn = TRUE]

\* the share is computed after the status and withdrawn checks
WithdrawPanics(k, r) ==
    /\ runs[r].exists /\ parts[r][k].exists /\ vault[r].exists
    /\ runs[r].status = "Settled"
    /\ ~parts[r][k].withdrawn
    /\ UserShareOverflows(parts[r][k].deposit_amount, runs[r].final_balance,
                          runs[r].total_deposited, parts[r][k].correct_votes)

\* overflow_checks: whether the build panics on integer overflow (the
\* profile's overflow-checks setting) or wraps
Withdraw(k, r) ==
    \E overflow_checks \in BOOLEAN :
    LET res == IF overflow_checks /\ WithdrawPanics(k, r)
               THEN "ProgramFailedToComplete"
               ELSE WithdrawOutcome(k, r) IN
    /\ last' = Called("withdraw", r, k, res)
    /\ IF res = "Ok"
       THEN /\ vault' = [vault EXCEPT ![r].amount = @ - ShareOf(r, k)]
            /\ parts' = [parts EXCEPT ![r][k] = WithdrawnParticipation(@, ShareOf(r, k))]
            /\ UNCHANGED <<platform, runs>>
       ELSE UNCHANGED accounts

\* -------------------------------------------------------- update_vote_stats
\* mutant: has_one = authority is missing from the run account
UpdateVoteStatsOutcomeAnySigner(k, r, user_pubkey, correct_votes, total_votes) ==
    IF ~runs[r].exists THEN "AccountNotInitialized"
    ELSE IF ~parts[r][user_pubkey].exists THEN "AccountNotInitialized"
    ELSE IF ~(runs[r].status = "Active") THEN "InvalidRunStatus"
    ELSE "Ok"

\* mutant: the status check is missing
UpdateVoteStatsOutcomeAnyStatus(k, r, user_pubkey, correct_votes, total_votes) ==
    IF ~runs[r].exists THEN "AccountNotInitialized"
    ELSE IF ~parts[r][user_pubkey].exists THEN "AccountNotInitialized"
    ELSE IF ~(runs[r].authority = k) THEN "ConstraintHasOne"
    ELSE "Ok"

UpdateVoteStatsOutcome(k, r, user_pubkey, correct_votes, total_votes) ==
    IF ~runs[r].exists THEN "AccountNotInitialized"
    ELSE IF ~parts[r][user_pubkey].exists THEN "AccountNotInitialized"
    ELSE IF ~(runs[r].authority = k) THEN "ConstraintHasOne"
    ELSE IF ~(runs[r].status = "Active") THEN "InvalidRunStatus"
    ELSE "Ok"

VotedParticipation(p, correct_votes, total_votes) ==
    [p EXCEPT !.correct_votes = correct_votes, !.total_votes = total_votes]

UpdateVoteStats(k, r, user_pubkey, correct_votes, total_votes) ==
    LET res == UpdateVoteStatsOutcome(k, r, user_pubkey, correct_votes, total_votes) IN
    /\ last' = Called("update_vote_stats", r, k, res)
    /\ IF res = "Ok"
       THEN /\ parts' = [parts EXCEPT ![r][user_pubkey] =
                            VotedParticipation(@, correct_votes, total_votes)]
            /\ UNCHANGED <<platform, runs, vault>>
       ELSE UNCHANGED accounts

\* ------------------------------------------ pause_platform, unpause_platform
AdminActionOutcome(k) ==
    IF ~(platform.authority = k) THEN "ConstraintHasOne" ELSE "Ok"

PausePlatform(k) ==
    LET res == AdminActionOutcome(k) IN
    /\ last' = Called("pause_platform", 0, k, res)
    /\ IF res = "Ok"
       THEN /\ platform' = [platform EXCEPT !.is_paused = TRUE]
            /\ UNCHANGED <<runs, parts, vault>>
       ELSE UNCHANGED accounts

UnpausePlatform(k) ==
    LET res == AdminActionOutcome(k) IN
    /\ last' = Called("unpause_platform", 0, k, res)
    /\ IF res = "Ok"
       THEN /\ platform' = [platform EXCEPT !.is_paused = FALSE]
            /\ UNCHANGED <<runs, parts, vault>>
       ELSE UNCHANGED accounts

\* ------------------------------------------------------- emergency_withdraw
\* mutant: the pause check is missing
EmergencyWithdrawOutcomeNoPauseCheck(k, r, amt) ==
    IF ~runs[r].exists THEN "AccountNotInitialized"
    ELSE IF ~vault[r].exists THEN "AccountNotInitialized"
    ELSE IF ~(platform.authority = k) THEN "ConstraintHasOne"
    ELSE IF ~(amt <= vault[r].amount) THEN "TokenInsufficientFunds"
    ELSE "Ok"

EmergencyWithdrawOutcome(k, r, amt) ==
    IF ~runs[r].exists THEN "AccountNotInitialized"
    ELSE IF ~vault[r].exists THEN "AccountNotInitialized"
    ELSE IF ~(platform.authority = k) THEN "ConstraintHasOne"
    ELSE IF ~platform.is_paused THEN "PlatformNotPaused"
    ELSE IF ~(amt <= vault[r].amount) THEN "TokenInsufficientFunds"
    ELSE "Ok"

EmergencyWithdraw(k, r, amt) ==
    LET res == EmergencyWithdrawOutcome(k, r, amt) IN
    /\ last' = Called("emergency_withdraw", r, k, res)
    /\ IF res = "Ok"
       THEN /\ vault' = [vault EXCEPT ![r].amount = @ - amt]
            /\ UNCHANGED <<platform, runs, parts>>
       ELSE UNCHANGED accounts

\* ------------------------------------------------------------- environment
\* The vault is an ordinary token account whose authority is the run PDA:
\* only this program can move tokens out of it, and the trading process
\* transfers its proceeds into it while the run is Active.
VaultCredit(k, r, amt) ==
    /\ vault[r].exists
    /\ runs[r].status = "Active"
    /\ amt > 0
    /\ vault[r].amount + amt <= runs[r].total_deposited + MaxCredit
    /\ vault' = [vault EXCEPT ![r].amount = @ + amt]
    /\ last' = Called("token_transfer", r, k, "Ok")
    /\ UNCHANGED <<platform, runs, parts>>

\* Anyone may transfer tokens into the vault of a settled run as well.
VaultCreditAfterSettlement(k, r, amt) ==
    /\ vault[r].exists
    /\ runs[r].status = "Settled"
    /\ amt > 0
    /\ vault[r].amount + amt <= runs[r].final_balance + MaxCredit
    /\ vault' = [vault EXCEPT ![r].amount = @ + amt]
    /\ last' = Called("token_transfer", r, k, "Ok")
    /\ UNCHANGED <<platform, runs, parts>>

\* ------------------------------------------------------------ specification
\* the final_balance values a settle_run call reports: the vault's balance
\* and the values next to it
FinalBalances(r) ==
    {b \in 0..VaultCap : b - vault[r].amount \in {0, 1}}

\* participant_shares vectors: every length up to MaxParticipants, with two
\* different contents
ShareLists ==
    {[i \in 1..n |-> [user |-> u, share_amount |-> a]] :
        n \in 0..MaxParticipants, u \in {"alice"}, a \in {0, 1}}

Next ==
    \/ \E k \in Signers : InitializePlatform(k, FeeBps)
          /\ UNCHANGED race
    \/ \E k \in Signers, r \in RunIds, mn \in MinDeposits, mx \in Amounts,
          mp \in ParticipantLimits : CreateRun(k, r, mn, mx, mp)
          /\ UNCHANGED race
    \/ \E k \in Signers, r \in RunIds : CreateRunVault(k, r)
          /\ UNCHANGED race
    \/ \E k \in Users, r \in RunIds, amt \in 0..(MaxAmount + 1), funded \in BOOLEAN :
          Deposit(k, r, amt, funded)
          /\ UNCHANGED race
    \/ \E k \in Signers, r \in RunIds : StartRun(k, r)
          /\ UNCHANGED race
    \/ \E k \in Signers, r \in RunIds, shares \in ShareLists :
          \E fb \in FinalBalances(r) : SettleRun(k, r, fb, shares)
          /\ UNCHANGED race
    \/ \E k \in Users, r \in RunIds : Withdraw(k, r)
          /\ UNCHANGED race
    \/ \E k \in Signers, r \in RunIds, u \in Users, c \in CorrectVotes,
          t \in TotalVotes : UpdateVoteStats(k, r, u, c, t)
          /\ UNCHANGED race
    \/ \E k \in Signers : PausePlatform(k)
          /\ UNCHANGED race
    \/ \E k \in Signers : UnpausePlatform(k)
          /\ UNCHANGED race
    \/ \E k \in Signers, r \in RunIds, amt \in 0..VaultCap : EmergencyWithdraw(k, r, amt)
          /\ UNCHANGED race
    \/ \E k \in Users, r \in RunIds, amt \in 1..MaxCredit : VaultCredit(k, r, amt)
          /\ UNCHANGED race

Spec == Init /\ [][Next]_vars

\* ------------------------------------------------ the race for the last slot
\* Run 1 is Waiting on an unpaused platform with exactly one free slot, as
\* create_run, create_run_vault and max_participants - 1 deposits leave it;
\* then each racer, a key without a record in the run, attempts one deposit
\* with an in-bounds amount, in any order.
RECURSIVE SetSum(_, _)
SetSum(f, S) ==
    IF S = {} THEN 0
    ELSE LET x == CHOOSE y \in S : TRUE IN f[x] + SetSum(f, S \ {x})

RaceKeys == {"alice", "bob", "carol", "dave"}
RaceRun == CHOOSE r \in RunIds : \A q \in RunIds : r <= q

InitRace ==
    \E mn \in 1..MaxAmount, mx \in 1..MaxAmount, mp \in 1..MaxParticipants :
    \E admitted \in SUBSET RaceKeys, racers \in SUBSET RaceKeys :
    \E dep \in [admitted -> mn..mx] :
        /\ mx >= mn
        /\ Cardinality(admitted) = mp - 1
        /\ racers \cap admitted = {}
        /\ Cardinality(racers) >= 2
        /\ platform = [authority |-> Admin, platform_fee_bps |-> FeeBps,
                       total_runs |-> 1, is_paused |-> FALSE]
        /\ runs = [r \in RunIds |->
                    IF r = RaceRun
                    THEN [NewRun(mn, mx, mp) EXCEPT
                            !.authority = Admin,
                            !.total_deposited = SetSum(dep, admitted),
                            !.participant_count = mp - 1]
                    ELSE NoRun]
        /\ parts = [r \in RunIds |-> [k \in RaceKeys |->
                    IF r = RaceRun /\ k \in admitted
                    THEN NewParticipation(dep[k]) ELSE NoParticipation]]
        /\ vault = [r \in RunIds |->
                    IF r = RaceRun
                    THEN [exists |-> TRUE, amount |-> SetSum(dep, admitted)]
                    ELSE NoVault]
        /\ last = Called("create_run_vault", RaceRun, Admin, "Ok")
        /\ race = [k \in racers |-> "pending"]

RaceDeposit(k, amt) ==
    /\ race[k] = "pending"
    /\ Deposit(k, RaceRun, amt, TRUE)
    /\ race' = [race EXCEPT ![k] = last'.res]

NextRace ==
    \E k \in DOMAIN race :
        \E amt \in runs[RaceRun].min_deposit..runs[RaceRun].max_deposit :
            RaceDeposit(k, amt)

SpecRace == InitRace /\ [][NextRace]_vars

\* ------------------------------------------- amounts at the top of the range
\* Run 1 holds amounts up to the largest u64.  Either it is Settled, as
\* deposits of d by alice and D - d by bob, vote updates and a settlement at
\* a vault balance of F leave it, and the participants withdraw; or it is
\* Waiting with bob's deposit recorded and the vault emptied by
\* emergency_withdraw, and alice deposits.
OverflowAmounts == {1, 2, U64Modulus \div 2, U64Max}

OverflowVotes == {0, VotingRounds, MaxU8}

LargeRun(status, total_deposited, final_balance, participant_count) ==
    [NewRun(1, U64Max, 2) EXCEPT
        !.authority = Admin, !.status = status,
        !.total_deposited = total_deposited, !.final_balance = final_balance,
        !.participant_count = participant_count]

InitSettledLarge ==
    \E d \in OverflowAmounts, D \in OverflowAmounts, F \in OverflowAmounts,
       c \in OverflowVotes :
        /\ d <= D
        /\ runs = [r \in RunIds |->
                    IF r = RaceRun
                    THEN LargeRun("Settled", D, F, IF d < D THEN 2 ELSE 1)
                    ELSE NoRun]
        /\ parts = [r \in RunIds |-> [k \in Keys |->
                    IF r = RaceRun /\ k = "alice"
                    THEN VotedParticipation(NewParticipation(d), c, VotingRounds)
                    ELSE IF r = RaceRun /\ k = "bob" /\ d < D
                    THEN NewParticipation(D - d)
                    ELSE NoParticipation]]
        /\ vault = [r \in RunIds |->
                    IF r = RaceRun THEN [exists |-> TRUE, amount |-> F] ELSE NoVault]
        /\ last = Called("settle_run", RaceRun, Admin, "Ok")

InitWaitingLarge ==
    \E T \in OverflowAmounts :
        /\ runs = [r \in RunIds |->
                    IF r = RaceRun THEN LargeRun("Waiting", T, 0, 1) ELSE NoRun]
        /\ parts = [r \in RunIds |-> [k \in Keys |->
                    IF r = RaceRun /\ k = "bob" THEN NewParticipation(T)
                    ELSE NoParticipation]]
        /\ vault = [r \in RunIds |->
                    IF r = RaceRun THEN [exists |-> TRUE, amount |-> 0] ELSE NoVault]
        /\ last = Called("unpause_platform", 0, Admin, "Ok")

InitOverflow ==
    /\ platform = [authority |-> Admin, platform_fee_bps |-> FeeBps,
                   total_runs |-> 1, is_paused |-> FALSE]
    /\ race = << >>
    /\ (InitSettledLarge \/ InitWaitingLarge)

NextOverflow ==
    \/ \E k \in Users : Withdraw(k, RaceRun)
          /\ UNCHANGED race
    \/ \E k \in Users, amt \in OverflowAmounts : Deposit(k, RaceRun, amt, TRUE)
          /\ UNCHANGED race

SpecOverflow == InitOverflow /\ [][NextOverflow]_vars

\* ------------------------------------------------ a settled run pays out
\* Run 1 is Settled and no emergency_withdraw has been made, as create_run,
\* create_run_vault, the participants' deposits, start_run, transfers of
\* proceeds into the vault, update_vote_stats calls and settle_run leave it;
\* then the participants withdraw in any order, while anyone may transfer
\* tokens into the vault.
\* the least base share that earns a bonus with VotingRounds correct votes
LeastBonusBase ==
    (BpsDenominator + VotingRounds * BpsPerVote - 1) \div (VotingRounds * BpsPerVote)

SettledDeposits == {1, MaxAmount, LeastBonusBase}

InitSettled ==
    \E members \in SUBSET Users :
    \E dep \in [members -> SettledDeposits], votes \in [members -> OverflowVotes],
       proceeds \in 0..MaxCredit, paused \in BOOLEAN :
        /\ members # {}
        /\ platform = [authority |-> Admin, platform_fee_bps |-> FeeBps,
                       total_runs |-> 1, is_paused |-> paused]
        /\ runs = [r \in RunIds |->
                    IF r = RaceRun
                    THEN [NewRun(1, LeastBonusBase, Cardinality(Users)) EXCEPT
                            !.authority = Admin,
                            !.status = "Settled",
                            !.total_deposited = SetSum(dep, members),
                            !.final_balance = SetSum(dep, members) + proceeds,
                            !.participant_count = Cardinality(members)]
                    ELSE NoRun]
        /\ parts = [r \in RunIds |-> [k \in Keys |->
                    IF r = RaceRun /\ k \in members
                    THEN VotedParticipation(NewParticipation(dep[k]), votes[k],
                                            VotingRounds)
                    ELSE NoParticipation]]
        /\ vault = [r \in RunIds |->
                    IF r = RaceRun
                    THEN [exists |-> TRUE, amount |-> SetSum(dep, members) + proceeds]
                    ELSE NoVault]
        /\ last = Called("settle_run", RaceRun, Admin, "Ok")
        /\ race = << >>

NextSettled ==
    \/ \E k \in Users : Withdraw(k, RaceRun)
          /\ UNCHANGED race
    \/ \E k \in Users, amt \in 1..MaxCredit :
          VaultCreditAfterSettlement(k, RaceRun, amt)
          /\ UNCHANGED race

SpecSettled == InitSettled /\ [][NextSettled]_vars

\* ==================================================================== claims
Participants(r) == {k \in DOMAIN parts[r] : parts[r][k].exists}

DepositAmounts(r) == [k \in DOMAIN parts[r] |-> parts[r][k].deposit_amount]

\* C1 (conservation): in every reachable state, for every run,
\* total_deposited is the exact sum of deposit_amount over the participation
\* records of that run, whatever deposits were accepted or rejected before.
C1_Conservation ==
    \A r \in RunIds :
        runs[r].total_deposited = SetSum(DepositAmounts(r), Participants(r))

\* a rejected deposit on a run that holds two records of different amounts
C1_Witness ==
    /\ last.op = "deposit" /\ last.res # "Ok"
    /\ \E r \in RunIds : \E a, b \in Participants(r) :
          parts[r][a].deposit_amount < parts[r][b].deposit_amount

\* C2 (capacity): in every reachable state every run has
\* participant_count <= max_participants, and participant_count is the
\* number of participation records that exist for the run.
C2_Capacity ==
    \A r \in RunIds :
        /\ runs[r].participant_count <= runs[r].max_participants
        /\ runs[r].participant_count = Cardinality(Participants(r))

\* a deposit was rejected with RunFull by a run at its capacity
C2_Witness ==
    /\ last.op = "deposit" /\ last.res = "RunFull"
    /\ runs[last.run].exists
    /\ runs[last.run].participant_count = runs[last.run].max_participants

\* C3 (concurrent admission): with exactly one free slot in a Waiting,
\* unpaused run and several distinct newcomers each attempting one in-bounds
\* deposit, in every order of the attempts at most one is ever admitted, and
\* once all have attempted exactly one has succeeded and every other attempt
\* has failed with RunFull.
Admitted == {k \in DOMAIN race : race[k] = "Ok"}

RaceOver == \A k \in DOMAIN race : race[k] # "pending"

C3_ExactlyOneAdmitted ==
    /\ \A k \in DOMAIN race : race[k] \in {"pending", "Ok", "RunFull"}
    /\ Cardinality(Admitted) <= 1
    /\ RaceOver /\ DOMAIN race # {} => Cardinality(Admitted) = 1

\* three racers have all attempted: one admitted, two turned away
C3_Witness ==
    /\ Cardinality(DOMAIN race) >= 3
    /\ RaceOver
    /\ Cardinality({k \in DOMAIN race : race[k] = "RunFull"}) >= 2

\* The accounts a deposit names pass validation: the run and its vault exist
\* and the signer's participation record can be created.
DepositAccountsValid(k, r) ==
    runs[r].exists /\ vault[r].exists /\ ~parts[r][k].exists

DepositAmountInputs == 0..(MaxAmount + 1)

\* C4 (deposit outcome): a deposit whose accounts pass validation and whose
\* token transfer is honoured succeeds iff the platform is unpaused, the run
\* is Waiting, min_deposit <= amount <= max_deposit and
\* participant_count < max_participants; otherwise it fails with the error of
\* the first failing check in the order PlatformPaused, RunNotInWaitingPhase,
\* DepositTooLow, DepositTooHigh, RunFull.  Every deposit that succeeds was
\* made in such a state with such an amount.
ClaimedDepositOutcome(r, amt) ==
    IF platform.is_paused THEN "PlatformPaused"
    ELSE IF runs[r].status # "Waiting" THEN "RunNotInWaitingPhase"
    ELSE IF amt < runs[r].min_deposit THEN "DepositTooLow"
    ELSE IF amt > runs[r].max_deposit THEN "DepositTooHigh"
    ELSE IF runs[r].participant_count = runs[r].max_participants THEN "RunFull"
    ELSE "Ok"

DepositSucceedsIff(r, amt) ==
    /\ ~platform.is_paused
    /\ runs[r].status = "Waiting"
    /\ runs[r].min_deposit <= amt /\ amt <= runs[r].max_deposit
    /\ runs[r].participant_count < runs[r].max_participants

DepositOutcomeAsClaimed ==
    \A r \in RunIds, k \in Users, amt \in DepositAmountInputs :
        DepositAccountsValid(k, r) =>
            /\ DepositOutcome(k, r, amt, TRUE) = ClaimedDepositOutcome(r, amt)
            /\ DepositOutcome(k, r, amt, TRUE) = "Ok" <=> DepositSucceedsIff(r, amt)

AcceptedDepositAsClaimed ==
    last'.op = "deposit" /\ last'.res = "Ok" =>
        \E k \in Users :
            /\ DepositAccountsValid(k, last'.run)
            /\ parts'[last'.run][k].exists
            /\ DepositSucceedsIff(last'.run, parts'[last'.run][k].deposit_amount)

C4_DepositOutcome ==
    []DepositOutcomeAsClaimed /\ [][AcceptedDepositAsClaimed]_vars

\* a deposit has just filled the last slot of a run
C4_Witness ==
    /\ last.op = "deposit" /\ last.res = "Ok"
    /\ runs[last.run].participant_count = runs[last.run].max_participants

\* C5 (monotonic lifecycle), as claimed: a run's status only ever changes
\* Waiting -> Active by start_run and Active -> Settled by settle_run; and,
\* for calls whose accounts and signer pass validation, start_run outside
\* Waiting and settle_run outside Active fail with InvalidRunStatus, deposit
\* outside Waiting fails with RunNotInWaitingPhase, withdraw outside Settled
\* fails with RunNotSettled.
StatusStep(r) ==
    \/ runs'[r].status = runs[r].status
    \/ /\ runs[r].status = "Waiting" /\ runs'[r].status = "Active"
       /\ last'.op = "start_run" /\ last'.res = "Ok"
    \/ /\ runs[r].status = "Active" /\ runs'[r].status = "Settled"
       /\ last'.op = "settle_run" /\ last'.res = "Ok"

SettleInputs == (0..VaultCap) \X ShareLists

LifecycleErrors(r, depositOutsideWaiting) ==
    /\ runs[r].status # "Waiting" =>
          StartRunOutcome(runs[r].authority, r) = "InvalidRunStatus"
    /\ runs[r].status # "Active" /\ vault[r].exists =>
          \A in \in SettleInputs :
              SettleRunOutcome(runs[r].authority, r, in[1], in[2]) = "InvalidRunStatus"
    /\ runs[r].status # "Waiting" =>
          \A k \in Users, amt \in DepositAmountInputs :
              DepositAccountsValid(k, r) =>
                  DepositOutcome(k, r, amt, TRUE) = depositOutsideWaiting
    /\ runs[r].status # "Settled" =>
          \A k \in Users :
              parts[r][k].exists => WithdrawOutcome(k, r) = "RunNotSettled"

LifecycleErrorsAsClaimed ==
    \A r \in RunIds :
        runs[r].exists => LifecycleErrors(r, "RunNotInWaitingPhase")

LifecycleStep == \A r \in RunIds : StatusStep(r)

C5_Original ==
    []LifecycleErrorsAsClaimed /\ [][LifecycleStep]_vars

\* C5, amended: as claimed, except that deposit outside Waiting fails with
\* PlatformPaused while the platform is paused, and with
\* RunNotInWaitingPhase otherwise.
LifecycleErrorsAmended ==
    \A r \in RunIds :
        runs[r].exists =>
            LifecycleErrors(r, IF platform.is_paused THEN "PlatformPaused"
                               ELSE "RunNotInWaitingPhase")

C5_MonotonicLifecycle ==
    []LifecycleErrorsAmended /\ [][LifecycleStep]_vars

\* start_run was rejected with InvalidRunStatus by a Settled run
C5_Witness ==
    /\ last.op = "start_run" /\ last.res = "InvalidRunStatus"
    /\ runs[last.run].status = "Settled"

\* C6 (settlement cross-check), as claimed: settle_run by the run's authority
\* succeeds iff the supplied final_balance equals the vault's balance, and a
\* call with a mismatched value fails with VaultBalanceMismatch.
C6_Original ==
    \A r \in RunIds :
        runs[r].exists /\ vault[r].exists =>
            \A in \in SettleInputs :
                LET res == SettleRunOutcome(runs[r].authority, r, in[1], in[2]) IN
                /\ res = "Ok" <=> in[1] = vault[r].amount
                /\ in[1] # vault[r].amount => res = "VaultBalanceMismatch"

\* C6, amended: on an Active run, called by the run's authority with
\* participant_shares.len() = participant_count, settle_run succeeds iff the
\* supplied final_balance equals the vault's balance at call time, and a
\* mismatched value fails with VaultBalanceMismatch; a settle_run that fails
\* leaves the run's status and every other account field unchanged, and one
\* that succeeds records the vault's balance as final_balance.
CrossCheckOnActiveRun ==
    \A r \in RunIds :
        runs[r].exists /\ vault[r].exists /\ runs[r].status = "Active" =>
            \A in \in SettleInputs :
                Len(in[2]) = runs[r].participant_count =>
                    LET res == SettleRunOutcome(runs[r].authority, r, in[1], in[2]) IN
                    /\ res = "Ok" <=> in[1] = vault[r].amount
                    /\ in[1] # vault[r].amount => res = "VaultBalanceMismatch"

SettleStep ==
    /\ last'.op = "settle_run" /\ last'.res # "Ok" => accounts' = accounts
    /\ last'.op = "settle_run" /\ last'.res = "Ok" =>
            /\ runs'[last'.run].status = "Settled"
            /\ runs'[last'.run].final_balance = vault[last'.run].amount

C6_SettlementCrossCheck ==
    []CrossCheckOnActiveRun /\ [][SettleStep]_vars

\* settle_run was rejected with VaultBalanceMismatch and the run is still Active
C6_Witness ==
    /\ last.op = "settle_run" /\ last.res = "VaultBalanceMismatch"
    /\ runs[last.run].status = "Active"

\* C7 (share formula): a successful withdraw on a settled run with
\* total_deposited = D and final_balance = F, by a participant with
\* deposit_amount = d and correct_votes = c, moves out of the vault and
\* records as final_share exactly base + floor(base * (c*100) / 10000) with
\* base = floor(d*F/D); for deposits 40 and 60, F = 120 and votes 1/1 and 0/1
\* the payouts are 48 and 72.
ClaimedBase(d, F, D) == (d * F) \div D

ClaimedEntitlement(d, F, D, c) ==
    ClaimedBase(d, F, D) + (ClaimedBase(d, F, D) * (c * 100)) \div 10000

ClaimedShareOf(r, k) ==
    ClaimedEntitlement(parts[r][k].deposit_amount, runs[r].final_balance,
                       runs[r].total_deposited, parts[r][k].correct_votes)

WithdrawPaysClaimedShare ==
    last'.op = "withdraw" /\ last'.res = "Ok" =>
        LET r == last'.run IN
        \E k \in Users :
            /\ parts[r][k].exists /\ ~parts[r][k].withdrawn
            /\ runs[r].status = "Settled"
            /\ parts'[r][k].withdrawn
            /\ parts'[r][k].final_share = ClaimedShareOf(r, k)
            /\ vault'[r].amount = vault[r].amount - ClaimedShareOf(r, k)
            /\ \A j \in Users \ {k} : parts'[r][j] = parts[r][j]

ExampleScenarioPayouts ==
    /\ UserShare(40, 120, 100, 1) = 48
    /\ UserShare(60, 120, 100, 0) = 72

C7_ShareFormula ==
    []ExampleScenarioPayouts /\ [][WithdrawPaysClaimedShare]_vars

\* a withdrawal has paid a share whose base is rounded down (the two deposits
\* differ and D does not divide d*F) to a participant with correct votes
C7_Witness ==
    /\ last.op = "withdraw" /\ last.res = "Ok"
    /\ \E k \in Users :
          LET r == last.run IN
          /\ parts[r][k].withdrawn
          /\ parts[r][k].correct_votes > 0
          /\ parts[r][k].final_share > 0
          /\ (parts[r][k].deposit_amount * runs[r].final_balance)
                 % runs[r].total_deposited # 0

\* C8 (bounded total payout), as claimed: for every settled run the sum over
\* all participants of their entitlement (base share plus vote bonus) is at
\* most final_balance plus participant_count - 1.
Entitlements(r) == [k \in DOMAIN parts[r] |-> ShareOf(r, k)]

C8_BoundedTotalPayout ==
    \A r \in RunIds :
        runs[r].status = "Settled" =>
            SetSum(Entitlements(r), Participants(r))
                <= runs[r].final_balance + (runs[r].participant_count - 1)

\* C9 (at-most-once withdrawal): for every run and participant, once
\* withdrawn is true it stays true and final_share is never changed again,
\* every later withdraw fails with AlreadyWithdrawn, a withdraw that fails
\* changes no participation record and no vault balance, and a withdraw that
\* succeeds is the one that turns withdrawn from false to true: at most one
\* withdraw per record succeeds.
WithdrawnIsRejected ==
    \A r \in RunIds, k \in Users :
        parts[r][k].withdrawn => WithdrawOutcome(k, r) = "AlreadyWithdrawn"

WithdrawOnceStep ==
    /\ \A r \in RunIds, k \in Users :
          parts[r][k].withdrawn =>
              /\ parts'[r][k].withdrawn
              /\ parts'[r][k].final_share = parts[r][k].final_share
    /\ last'.op = "withdraw" /\ last'.res # "Ok" =>
          parts' = parts /\ vault' = vault
    /\ last'.op = "withdraw" /\ last'.res = "Ok" =>
          Cardinality({k \in Users : /\ ~parts[last'.run][k].withdrawn
                                     /\ parts'[last'.run][k].withdrawn}) = 1

C9_AtMostOnceWithdrawal ==
    []WithdrawnIsRejected /\ [][WithdrawOnceStep]_vars

\* a repeated withdraw was rejected with AlreadyWithdrawn
C9_Witness ==
    /\ last.op = "withdraw" /\ last.res = "AlreadyWithdrawn"
    /\ \E k \in Users : parts[last.run][k].withdrawn /\ parts[last.run][k].final_share > 0

\* C10 (pause gating): while is_paused is true every create_run and every
\* deposit fails, with PlatformPaused whenever the accounts the call names
\* pass validation; and pausing or unpausing changes the outcome of no
\* withdraw, settle_run or update_vote_stats call.
CreateRunInputs == MinDeposits \X Amounts \X ParticipantLimits

VoteInputs == CorrectVotes \X TotalVotes

PausedRejects ==
    platform.is_paused =>
        /\ \A r \in RunIds, k \in Signers, in \in CreateRunInputs :
              ~runs[r].exists =>
                  CreateRunOutcome(k, r, in[1], in[2], in[3]) = "PlatformPaused"
        /\ \A r \in RunIds, k \in Users, amt \in DepositAmountInputs, f \in BOOLEAN :
              DepositAccountsValid(k, r) =>
                  DepositOutcome(k, r, amt, f) = "PlatformPaused"

PauseStep ==
    /\ platform.is_paused /\ last'.op \in {"create_run", "deposit"} =>
          last'.res # "Ok" /\ accounts' = accounts
    /\ platform'.is_paused # platform.is_paused =>
          \A r \in RunIds :
              /\ \A k \in Users : WithdrawOutcome(k, r)' = WithdrawOutcome(k, r)
              /\ runs[r].status = "Settled" =>
                    \A k \in Users : ShareOf(r, k)' = ShareOf(r, k)
              /\ \A k \in Signers, in \in SettleInputs :
                    SettleRunOutcome(k, r, in[1], in[2])'
                        = SettleRunOutcome(k, r, in[1], in[2])
              /\ \A k \in Signers, u \in Users, in \in VoteInputs :
                    UpdateVoteStatsOutcome(k, r, u, in[1], in[2])'
                        = UpdateVoteStatsOutcome(k, r, u, in[1], in[2])

C10_PauseGating ==
    []PausedRejects /\ [][PauseStep]_vars

\* a withdrawal succeeded on a paused platform that turns deposits away
C10_Witness ==
    /\ platform.is_paused
    /\ last.op = "withdraw" /\ last.res = "Ok"

\* C11 (emergency withdraw gating): emergency_withdraw succeeds only for the
\* platform authority and only while is_paused is true; called by the
\* authority while the platform is not paused it fails with PlatformNotPaused;
\* an emergency_withdraw step taken while the platform is not paused fails
\* and changes no vault, and one that succeeds was taken while paused and
\* lowers only the named run's vault.
EmergencyAmounts == 0..VaultCap

EmergencyGated ==
    \A r \in RunIds, amt \in EmergencyAmounts :
        /\ \A k \in Signers :
              EmergencyWithdrawOutcome(k, r, amt) = "Ok" =>
                  k = platform.authority /\ platform.is_paused
        /\ runs[r].exists /\ vault[r].exists /\ ~platform.is_paused =>
              EmergencyWithdrawOutcome(platform.authority, r, amt) = "PlatformNotPaused"

EmergencyStep ==
    last'.op = "emergency_withdraw" =>
        /\ ~platform.is_paused => last'.res # "Ok" /\ accounts' = accounts
        /\ last'.res # "Ok" => vault' = vault
        /\ last'.res = "Ok" =>
              /\ platform.is_paused
              /\ vault'[last'.run].amount <= vault[last'.run].amount
              /\ \A q \in RunIds \ {last'.run} : vault'[q] = vault[q]
              /\ <<platform, runs, parts>>' = <<platform, runs, parts>>

C11_EmergencyGating ==
    []EmergencyGated /\ [][EmergencyStep]_vars

\* emergency_withdraw was turned away with PlatformNotPaused from a vault
\* that holds tokens
C11_Witness ==
    /\ last.op = "emergency_withdraw" /\ last.res = "PlatformNotPaused"
    /\ ~platform.is_paused
    /\ vault[last.run].amount > 0

\* C12 (vote counter bound), as claimed: in every reachable state every
\* participation record has correct_votes <= total_votes, and the bonus rate
\* applied to its base share at withdrawal is at most 12 votes' worth,
\* 1200 bps.
BonusCeilingBps == VotingRounds * BpsPerVote

C12_VoteBound ==
    \A r \in RunIds, k \in Users :
        parts[r][k].exists =>
            /\ parts[r][k].correct_votes <= parts[r][k].total_votes
            /\ CorrectVoteBonusBps(parts[r][k].correct_votes) <= BonusCeilingBps

\* C13 (all-or-nothing): every call that is rejected, with whatever error,
\* leaves the platform registry, every run ledger, every participation
\* record and every vault balance exactly as they were before the call.
RejectedCallChangesNothing ==
    last'.res # "Ok" => accounts' = accounts

OnlyAuthoritySucceeds ==
    /\ \A k \in Signers :
          AdminActionOutcome(k) = "Ok" => k = platform.authority
    /\ \A r \in RunIds, k \in Signers :
          /\ StartRunOutcome(k, r) = "Ok" => k = runs[r].authority
          /\ \A in \in SettleInputs :
                SettleRunOutcome(k, r, in[1], in[2]) = "Ok" => k = runs[r].authority
          /\ \A u \in Users, in \in VoteInputs :
                UpdateVoteStatsOutcome(k, r, u, in[1], in[2]) = "Ok"
                    => k = runs[r].authority

AuthorizedOps ==
    {"start_run", "settle_run", "update_vote_stats", "pause_platform",
     "unpause_platform"}

AuthorizedStep ==
    /\ last'.op \in AuthorizedOps /\ last'.res # "Ok" => accounts' = accounts
    /\ platform'.is_paused # platform.is_paused =>
          last'.op \in {"pause_platform", "unpause_platform"} /\ last'.res = "Ok"
    /\ \A r \in RunIds :
          runs[r].exists /\ runs'[r].status # runs[r].status =>
              last'.op \in {"start_run", "settle_run"} /\ last'.res = "Ok"

C14_Authorization ==
    []OnlyAuthoritySucceeds /\ [][AuthorizedStep]_vars

\* a signer who is not the run's authority was turned away from
\* update_vote_stats on an Active run that the authority could have updated
C14_Witness ==
    /\ last.op = "update_vote_stats" /\ last.res = "ConstraintHasOne"
    /\ runs[last.run].status = "Active"
    /\ \E u \in Users : parts[last.run][u].exists

\* C15 (authorized run creation), as claimed: create_run succeeds only when
\* the caller is the platform authority; a create_run call by any other
\* identity creates no run and does not increment total_runs.
C15_AuthorizedCreation ==
    last.op = "create_run" /\ last.res = "Ok" =>
        last.signer = platform.authority

\* C16 (one deposit per participant per run): a participant who has a
\* record for a run is turned away from every further deposit into it, even
\* when every explicit check would pass, and that call leaves
\* total_deposited, participant_count, the record and the vault unchanged;
\* a record, once created, keeps its deposit_amount, and every accepted
\* deposit creates exactly one record, for a participant who had none.
SecondDepositRejected ==
    \A r \in RunIds, k \in Users :
        parts[r][k].exists =>
            \A amt \in DepositAmountInputs, funded \in BOOLEAN :
                DepositOutcome(k, r, amt, funded) = "AccountAlreadyInUse"

OneRecordStep ==
    /\ \A r \in RunIds, k \in Users :
          parts[r][k].exists =>
              /\ parts'[r][k].exists
              /\ parts'[r][k].deposit_amount = parts[r][k].deposit_amount
    /\ last'.op = "deposit" /\ last'.res = "AccountAlreadyInUse" =>
          accounts' = accounts
    /\ last'.op = "deposit" /\ last'.res = "Ok" =>
          LET r == last'.run IN
          /\ Cardinality({k \in Users : ~parts[r][k].exists /\ parts'[r][k].exists}) = 1
          /\ runs'[r].participant_count = runs[r].participant_count + 1

C16_OneDepositPerParticipant ==
    []SecondDepositRejected /\ [][OneRecordStep]_vars

\* a second deposit was turned away from a Waiting run on an unpaused
\* platform that still has a free slot
C16_Witness ==
    /\ last.op = "deposit" /\ last.res = "AccountAlreadyInUse"
    /\ ~platform.is_paused
    /\ runs[last.run].status = "Waiting"
    /\ runs[last.run].participant_count < runs[last.run].max_participants

\* C17 (overflow-safe entitlement), as claimed: for values anywhere in the
\* u64 range and any u8 correct_votes no deposit and no withdraw fails on an
\* arithmetic overflow, every share paid equals the exact value of
\* floor(d*F/D) + floor(floor(d*F/D) * (c*100) / 10000), and total_deposited
\* is the exact sum of the recorded deposits.
C17_OverflowSafe ==
    /\ last.res # "ProgramFailedToComplete"
    /\ \A r \in RunIds, k \in Users :
          parts[r][k].withdrawn => parts[r][k].final_share = ClaimedShareOf(r, k)
    /\ \A r \in RunIds :
          runs[r].total_deposited = SetSum(DepositAmounts(r), Participants(r))

\* C18 (dust bound), as claimed: in a settled run whose vault no
\* emergency_withdraw has touched and whose participants have all withdrawn,
\* final_balance minus the sum of the final_share values is at least 0 and
\* at most participant_count.
FinalShares(r) == [k \in DOMAIN parts[r] |-> parts[r][k].final_share]

AllWithdrawn(r) == \A k \in Participants(r) : parts[r][k].withdrawn

Residual(r) == runs[r].final_balance - SetSum(FinalShares(r), Participants(r))

C18_DustBound ==
    \A r \in RunIds :
        runs[r].status = "Settled" /\ AllWithdrawn(r) =>
            /\ 0 <= Residual(r)
            /\ Residual(r) <= runs[r].participant_count

\* C20 (withdrawal completes for everyone), as claimed: in a settled run
\* whose vault no emergency_withdraw has debited, no withdraw by a
\* participant who has not withdrawn fails with InsufficientVaultFunds,
\* whatever the order of the withdrawals and the recorded votes.
C20_NoInsufficientVaultFunds ==
    ~(last.op = "withdraw" /\ last.res = "InsufficientVaultFunds")

\* C19 (inert participant_shares), as claimed: settle_run by the run's
\* authority rejects with InvalidSharesCount whenever
\* participant_shares.len() differs from participant_count.
C19_Original ==
    \A r \in RunIds :
        runs[r].exists /\ vault[r].exists =>
            \A in \in SettleInputs :
                Len(in[2]) # runs[r].participant_count =>
                    SettleRunOutcome(runs[r].authority, r, in[1], in[2])
                        = "InvalidSharesCount"

\* C19, amended: on an Active run settle_run by the run's authority rejects
\* with InvalidSharesCount when participant_shares.len() differs from
\* participant_count; in every state, two settle_run calls that differ only
\* in the contents of equal-length participant_shares lists have the same
\* result, and a settle_run that succeeds leaves the state that the run, the
\* vault and the other accounts determine: status Settled, final_balance the
\* vault's balance, nothing else changed.  (What a later withdraw does is
\* determined by that state.)
SharesInert ==
    \A r \in RunIds :
        /\ \A k \in Signers, fb \in 0..VaultCap, s1 \in ShareLists, s2 \in ShareLists :
              Len(s1) = Len(s2) =>
                  SettleRunOutcome(k, r, fb, s1) = SettleRunOutcome(k, r, fb, s2)
        /\ runs[r].exists /\ vault[r].exists /\ runs[r].status = "Active" =>
              \A in \in SettleInputs :
                  Len(in[2]) # runs[r].participant_count =>
                      SettleRunOutcome(runs[r].authority, r, in[1], in[2])
                          = "InvalidSharesCount"

SettleIgnoresShares ==
    last'.op = "settle_run" /\ last'.res = "Ok" =>
        LET r == last'.run IN
        /\ runs' = [runs EXCEPT ![r] =
                       [@ EXCEPT !.status = "Settled",
                                 !.final_balance = vault[r].amount]]
        /\ <<platform, parts, vault>>' = <<platform, parts, vault>>

C19_InertShares ==
    []SharesInert /\ [][SettleIgnoresShares]_vars

\* settle_run was turned away from an Active run with InvalidSharesCount
C19_Witness ==
    /\ last.op = "settle_run" /\ last.res = "InvalidSharesCount"
    /\ runs[last.run].status = "Active"
    /\ runs[last.run].participant_count = Cardinality(Users)

\* C21 (non-zero divisor): every run that exists has min_deposit > 0, every
\* run whose status is Active or Settled has participant_count >= 1 and
\* total_deposited >= min_deposit, so that withdraw divides by a non-zero
\* total_deposited; start_run by the run's authority on a run with no
\* participants fails with NoParticipants, and the run stays Waiting.
DivisorNonZero ==
    \A r \in RunIds :
        /\ runs[r].exists => runs[r].min_deposit > 0
        /\ runs[r].status \in {"Active", "Settled"} =>
              /\ runs[r].participant_count >= 1
              /\ runs[r].total_deposited >= runs[r].min_deposit
              /\ runs[r].total_deposited > 0
        /\ runs[r].exists /\ runs[r].participant_count = 0 =>
              StartRunOutcome(runs[r].authority, r) = "NoParticipants"

NoParticipantsStep ==
    last'.op = "start_run" /\ last'.res = "NoParticipants" =>
        /\ accounts' = accounts
        /\ runs'[last'.run].status = "Waiting"
        /\ runs'[last'.run].participant_count = 0

C21_NonZeroDivisor ==
    []DivisorNonZero /\ [][NoParticipantsStep]_vars

\* start_run was turned away with NoParticipants from a run with a vault,
\* open for deposits
C21_Witness ==
    /\ last.op = "start_run" /\ last.res = "NoParticipants"
    /\ runs[last.run].status = "Waiting"
    /\ vault[last.run].exists
    /\ ~platform.is_paused

\* C22 (entitlement frozen at settlement): final_balance is 0 in every state
\* where the run is not Settled; once a run is Settled no step changes its
\* final_balance, total_deposited or participant_count, nor any participant's
\* deposit_amount, correct_votes or total_votes, so every participant's
\* computed entitlement stays the same; update_vote_stats succeeds only
\* while the run is Active, and then it overwrites the two counters of one
\* record with the supplied values and changes nothing else.
UnsettledBalanceZero ==
    \A r \in RunIds :
        /\ runs[r].status # "Settled" => runs[r].final_balance = 0
        /\ \A k \in Signers, u \in Users, in \in VoteInputs :
              UpdateVoteStatsOutcome(k, r, u, in[1], in[2]) = "Ok"
                  => runs[r].status = "Active"

FrozenStep ==
    /\ \A r \in RunIds :
          runs[r].status = "Settled" =>
              /\ runs'[r] = runs[r]
              /\ \A k \in Users :
                    /\ parts'[r][k].exists = parts[r][k].exists
                    /\ parts'[r][k].deposit_amount = parts[r][k].deposit_amount
                    /\ parts'[r][k].correct_votes = parts[r][k].correct_votes
                    /\ parts'[r][k].total_votes = parts[r][k].total_votes
              /\ parts'[r] # parts[r] =>
                    \A k \in Users :
                        parts[r][k].exists => ShareOf(r, k)' = ShareOf(r, k)
    /\ last'.op = "update_vote_stats" /\ last'.res = "Ok" =>
          LET r == last'.run IN
          /\ runs[r].status = "Active"
          /\ <<platform, runs, vault>>' = <<platform, runs, vault>>
          /\ \E u \in Users, in \in VoteInputs :
                parts' = [parts EXCEPT ![r][u] =
                            [@ EXCEPT !.correct_votes = in[1],
                                      !.total_votes = in[2]]]

C22_FrozenEntitlement ==
    []UnsettledBalanceZero /\ [][FrozenStep]_vars

\* update_vote_stats was turned away from a Settled run with a positive
\* final_balance, in which a participant with correct votes has yet to
\* withdraw
C22_Witness ==
    /\ last.op = "update_vote_stats" /\ last.res = "InvalidRunStatus"
    /\ runs[last.run].status = "Settled"
    /\ runs[last.run].final_balance > 0
    /\ \E k \in Users :
          /\ parts[last.run][k].exists
          /\ parts[last.run][k].correct_votes > 0
          /\ ~parts[last.run][k].withdrawn

====
